---- MODULE Spec2Model ----
(***************************************************************************)
(* A model of hedgeye_scraper.py: the market-hours loop                    *)
(* monitor_feeds_async, the login retry loop it calls for every account,   *)
(* and the poll/dedup/dispatch body it runs for every session.             *)
(*                                                                         *)
(* One action is one step of the loop between two blocking calls: the top  *)
(* of the while loop (clock read and branch), one step of login(), one     *)
(* pass of the "for session in sessions" body, the overnight wait.         *)
(***************************************************************************)
EXTENDS Integers, Sequences, FiniteSets, TLC

VARIABLES
    pc,                 \* position of monitor_feeds_async
    first_time_ever,    \* local flag, line 158
    logged_in,          \* local flag, line 157
    market_is_open,     \* local flag, line 156
    sessions,           \* local list built at lines 173-183
    last_alert_details, \* module global, line 40
    i,                  \* loop index: account being logged in / session being polled
    retry_count,        \* login(): line 58
    at_login_url,       \* login(): driver.current_url == login_url
    day,                \* the clock: trading day
    now,                \* the clock: instant of the day
    prev_title,         \* title of the latest non-null extraction of this trading day
    dispatched_today,   \* titles that reached both sinks since the last overnight wait
    first_cycles,       \* what the first two passes over the sessions did
    ev                  \* what the latest step did (calls made, pauses taken)

vars == <<pc, first_time_ever, logged_in, market_is_open, sessions,
          last_alert_details, i, retry_count, at_login_url, day, now,
          prev_title, dispatched_today, first_cycles, ev>>

----------------------------------------------------------------------------
\* Bounds of the model.
NumAccounts == 2   \* entries of cred/hedgeye_credentials.json
NumTitles == 2     \* distinct alert titles the feed may show
MaxDay == 1        \* trading days 0..MaxDay

\* login(): "retry_count < 5"
RetryBudget == 5

\* The day's schedule as get_next_market_times() returns it, and the last
\* instant of a day.  Instants 0..LastTick; 0 is before the login window and
\* LastTick is after the close.
PreMarketLoginAt == 1
MarketOpenAt == 2
MarketCloseAt == 3
LastTick == 4

Ticks == 0..LastTick
Accounts == 1..NumAccounts
Titles == 1..NumTitles
Prices == {1, 2}
Stamps == {1, 2}

\* last_alert_details.get("title") on the empty dict is None, which differs
\* from every str.
NoTitle == 0
NoStamp == 0
EmptyDict == [title |-> NoTitle, created_at |-> NoStamp]

\* What fetch_alert_details returns when it returns a dict.
Alerts == [title : Titles, price : Prices, created_at : Stamps]
NullAlert == [title |-> NoTitle, price |-> 0, created_at |-> NoStamp]

----------------------------------------------------------------------------
\* Titles as text: a str is a sequence of characters, each character its
\* Unicode code point, so "Buy" is <<66, 117, 121>>.  The classes below are
\* those of the re and str of Python 3.11 (Unicode 14.0.0) over all of
\* U+0000..U+10FFFF.

\* "[A-Z]" of the pattern at line 219: the 26 ASCII capitals.
Upper == 65..90

\* "$" of the pattern at line 219, and "-" of line 221.
Dollar == 36
Hyphen == 45

\* "\w" of a str pattern: the letters, the digits and the underscore of
\* Unicode, as <<first, last>> stretches of code points.
WordRanges ==
    {<<48,57>>, <<65,90>>, <<95,95>>, <<97,122>>, <<170,170>>,
     <<178,179>>, <<181,181>>, <<185,186>>, <<188,190>>, <<192,214>>,
     <<216,246>>, <<248,705>>, <<710,721>>, <<736,740>>, <<748,748>>,
     <<750,750>>, <<880,884>>, <<886,887>>, <<890,893>>, <<895,895>>,
     <<902,902>>, <<904,906>>, <<908,908>>, <<910,929>>, <<931,1013>>,
     <<1015,1153>>, <<1162,1327>>, <<1329,1366>>, <<1369,1369>>,
     <<1376,1416>>, <<1488,1514>>, <<1519,1522>>, <<1568,1610>>,
     <<1632,1641>>, <<1646,1647>>, <<1649,1747>>, <<1749,1749>>,
     <<1765,1766>>, <<1774,1788>>, <<1791,1791>>, <<1808,1808>>,
     <<1810,1839>>, <<1869,1957>>, <<1969,1969>>, <<1984,2026>>,
     <<2036,2037>>, <<2042,2042>>, <<2048,2069>>, <<2074,2074>>,
     <<2084,2084>>, <<2088,2088>>, <<2112,2136>>, <<2144,2154>>,
     <<2160,2183>>, <<2185,2190>>, <<2208,2249>>, <<2308,2361>>,
     <<2365,2365>>, <<2384,2384>>, <<2392,2401>>, <<2406,2415>>,
     <<2417,2432>>, <<2437,2444>>, <<2447,2448>>, <<2451,2472>>,
     <<2474,2480>>, <<2482,2482>>, <<2486,2489>>, <<2493,2493>>,
     <<2510,2510>>, <<2524,2525>>, <<2527,2529>>, <<2534,2545>>,
     <<2548,2553>>, <<2556,2556>>, <<2565,2570>>, <<2575,2576>>,
     <<2579,2600>>, <<2602,2608>>, <<2610,2611>>, <<2613,2614>>,
     <<2616,2617>>, <<2649,2652>>, <<2654,2654>>, <<2662,2671>>,
     <<2674,2676>>, <<2693,2701>>, <<2703,2705>>, <<2707,2728>>,
     <<2730,2736>>, <<2738,2739>>, <<2741,2745>>, <<2749,2749>>,
     <<2768,2768>>, <<2784,2785>>, <<2790,2799>>, <<2809,2809>>,
     <<2821,2828>>, <<2831,2832>>, <<2835,2856>>, <<2858,2864>>,
     <<2866,2867>>, <<2869,2873>>, <<2877,2877>>, <<2908,2909>>,
     <<2911,2913>>, <<2918,2927>>, <<2929,2935>>, <<2947,2947>>,
     <<2949,2954>>, <<2958,2960>>, <<2962,2965>>, <<2969,2970>>,
     <<2972,2972>>, <<2974,2975>>, <<2979,2980>>, <<2984,2986>>,
     <<2990,3001>>, <<3024,3024>>, <<3046,3058>>, <<3077,3084>>,
     <<3086,3088>>, <<3090,3112>>, <<3114,3129>>, <<3133,3133>>,
     <<3160,3162>>, <<3165,3165>>, <<3168,3169>>, <<3174,3183>>,
     <<3192,3198>>, <<3200,3200>>, <<3205,3212>>, <<3214,3216>>,
     <<3218,3240>>, <<3242,3251>>, <<3253,3257>>, <<3261,3261>>,
     <<3293,3294>>, <<3296,3297>>, <<3302,3311>>, <<3313,3314>>,
     <<3332,3340>>, <<3342,3344>>, <<3346,3386>>, <<3389,3389>>,
     <<3406,3406>>, <<3412,3414>>, <<3416,3425>>, <<3430,3448>>,
     <<3450,3455>>, <<3461,3478>>, <<3482,3505>>, <<3507,3515>>,
     <<3517,3517>>, <<3520,3526>>, <<3558,3567>>, <<3585,3632>>,
     <<3634,3635>>, <<3648,3654>>, <<3664,3673>>, <<3713,3714>>,
     <<3716,3716>>, <<3718,3722>>, <<3724,3747>>, <<3749,3749>>,
     <<3751,3760>>, <<3762,3763>>, <<3773,3773>>, <<3776,3780>>,
     <<3782,3782>>, <<3792,3801>>, <<3804,3807>>, <<3840,3840>>,
     <<3872,3891>>, <<3904,3911>>, <<3913,3948>>, <<3976,3980>>,
     <<4096,4138>>, <<4159,4169>>, <<4176,4181>>, <<4186,4189>>,
     <<4193,4193>>, <<4197,4198>>, <<4206,4208>>, <<4213,4225>>,
     <<4238,4238>>, <<4240,4249>>, <<4256,4293>>, <<4295,4295>>,
     <<4301,4301>>, <<4304,4346>>, <<4348,4680>>, <<4682,4685>>,
     <<4688,4694>>, <<4696,4696>>, <<4698,4701>>, <<4704,4744>>,
     <<4746,4749>>, <<4752,4784>>, <<4786,4789>>, <<4792,4798>>,
     <<4800,4800>>, <<4802,4805>>, <<4808,4822>>, <<4824,4880>>,
     <<4882,4885>>, <<4888,4954>>, <<4969,4988>>, <<4992,5007>>,
     <<5024,5109>>, <<5112,5117>>, <<5121,5740>>, <<5743,5759>>,
     <<5761,5786>>, <<5792,5866>>, <<5870,5880>>, <<5888,5905>>,
     <<5919,5937>>, <<5952,5969>>, <<5984,5996>>, <<5998,6000>>,
     <<6016,6067>>, <<6103,6103>>, <<6108,6108>>, <<6112,6121>>,
     <<6128,6137>>, <<6160,6169>>, <<6176,6264>>, <<6272,6276>>,
     <<6279,6312>>, <<6314,6314>>, <<6320,6389>>, <<6400,6430>>,
     <<6470,6509>>, <<6512,6516>>, <<6528,6571>>, <<6576,6601>>,
     <<6608,6618>>, <<6656,6678>>, <<6688,6740>>, <<6784,6793>>,
     <<6800,6809>>, <<6823,6823>>, <<6917,6963>>, <<6981,6988>>,
     <<6992,7001>>, <<7043,7072>>, <<7086,7141>>, <<7168,7203>>,
     <<7232,7241>>, <<7245,7293>>, <<7296,7304>>, <<7312,7354>>,
     <<7357,7359>>, <<7401,7404>>, <<7406,7411>>, <<7413,7414>>,
     <<7418,7418>>, <<7424,7615>>, <<7680,7957>>, <<7960,7965>>,
     <<7968,8005>>, <<8008,8013>>, <<8016,8023>>, <<8025,8025>>,
     <<8027,8027>>, <<8029,8029>>, <<8031,8061>>, <<8064,8116>>,
     <<8118,8124>>, <<8126,8126>>, <<8130,8132>>, <<8134,8140>>,
     <<8144,8147>>, <<8150,8155>>, <<8160,8172>>, <<8178,8180>>,
     <<8182,8188>>, <<8304,8305>>, <<8308,8313>>, <<8319,8329>>,
     <<8336,8348>>, <<8450,8450>>, <<8455,8455>>, <<8458,8467>>,
     <<8469,8469>>, <<8473,8477>>, <<8484,8484>>, <<8486,8486>>,
     <<8488,8488>>, <<8490,8493>>, <<8495,8505>>, <<8508,8511>>,
     <<8517,8521>>, <<8526,8526>>, <<8528,8585>>, <<9312,9371>>,
     <<9450,9471>>, <<10102,10131>>, <<11264,11492>>, <<11499,11502>>,
     <<11506,11507>>, <<11517,11517>>, <<11520,11557>>, <<11559,11559>>,
     <<11565,11565>>, <<11568,11623>>, <<11631,11631>>, <<11648,11670>>,
     <<11680,11686>>, <<11688,11694>>, <<11696,11702>>, <<11704,11710>>,
     <<11712,11718>>, <<11720,11726>>, <<11728,11734>>, <<11736,11742>>,
     <<11823,11823>>, <<12293,12295>>, <<12321,12329>>, <<12337,12341>>,
     <<12344,12348>>, <<12353,12438>>, <<12445,12447>>, <<12449,12538>>,
     <<12540,12543>>, <<12549,12591>>, <<12593,12686>>, <<12690,12693>>,
     <<12704,12735>>, <<12784,12799>>, <<12832,12841>>, <<12872,12879>>,
     <<12881,12895>>, <<12928,12937>>, <<12977,12991>>, <<13312,19903>>,
     <<19968,42124>>, <<42192,42237>>, <<42240,42508>>, <<42512,42539>>,
     <<42560,42606>>, <<42623,42653>>, <<42656,42735>>, <<42775,42783>>,
     <<42786,42888>>, <<42891,42954>>, <<42960,42961>>, <<42963,42963>>,
     <<42965,42969>>, <<42994,43009>>, <<43011,43013>>, <<43015,43018>>,
     <<43020,43042>>, <<43056,43061>>, <<43072,43123>>, <<43138,43187>>,
     <<43216,43225>>, <<43250,43255>>, <<43259,43259>>, <<43261,43262>>,
     <<43264,43301>>, <<43312,43334>>, <<43360,43388>>, <<43396,43442>>,
     <<43471,43481>>, <<43488,43492>>, <<43494,43518>>, <<43520,43560>>,
     <<43584,43586>>, <<43588,43595>>, <<43600,43609>>, <<43616,43638>>,
     <<43642,43642>>, <<43646,43695>>, <<43697,43697>>, <<43701,43702>>,
     <<43705,43709>>, <<43712,43712>>, <<43714,43714>>, <<43739,43741>>,
     <<43744,43754>>, <<43762,43764>>, <<43777,43782>>, <<43785,43790>>,
     <<43793,43798>>, <<43808,43814>>, <<43816,43822>>, <<43824,43866>>,
     <<43868,43881>>, <<43888,44002>>, <<44016,44025>>, <<44032,55203>>,
     <<55216,55238>>, <<55243,55291>>, <<63744,64109>>, <<64112,64217>>,
     <<64256,64262>>, <<64275,64279>>, <<64285,64285>>, <<64287,64296>>,
     <<64298,64310>>, <<64312,64316>>, <<64318,64318>>, <<64320,64321>>,
     <<64323,64324>>, <<64326,64433>>, <<64467,64829>>, <<64848,64911>>,
     <<64914,64967>>, <<65008,65019>>, <<65136,65140>>, <<65142,65276>>,
     <<65296,65305>>, <<65313,65338>>, <<65345,65370>>, <<65382,65470>>,
     <<65474,65479>>, <<65482,65487>>, <<65490,65495>>, <<65498,65500>>,
     <<65536,65547>>, <<65549,65574>>, <<65576,65594>>, <<65596,65597>>,
     <<65599,65613>>, <<65616,65629>>, <<65664,65786>>, <<65799,65843>>,
     <<65856,65912>>, <<65930,65931>>, <<66176,66204>>, <<66208,66256>>,
     <<66273,66299>>, <<66304,66339>>, <<66349,66378>>, <<66384,66421>>,
     <<66432,66461>>, <<66464,66499>>, <<66504,66511>>, <<66513,66517>>,
     <<66560,66717>>, <<66720,66729>>, <<66736,66771>>, <<66776,66811>>,
     <<66816,66855>>, <<66864,66915>>, <<66928,66938>>, <<66940,66954>>,
     <<66956,66962>>, <<66964,66965>>, <<66967,66977>>, <<66979,66993>>,
     <<66995,67001>>, <<67003,67004>>, <<67072,67382>>, <<67392,67413>>,
     <<67424,67431>>, <<67456,67461>>, <<67463,67504>>, <<67506,67514>>,
     <<67584,67589>>, <<67592,67592>>, <<67594,67637>>, <<67639,67640>>,
     <<67644,67644>>, <<67647,67669>>, <<67672,67702>>, <<67705,67742>>,
     <<67751,67759>>, <<67808,67826>>, <<67828,67829>>, <<67835,67867>>,
     <<67872,67897>>, <<67968,68023>>, <<68028,68047>>, <<68050,68096>>,
     <<68112,68115>>, <<68117,68119>>, <<68121,68149>>, <<68160,68168>>,
     <<68192,68222>>, <<68224,68255>>, <<68288,68295>>, <<68297,68324>>,
     <<68331,68335>>, <<68352,68405>>, <<68416,68437>>, <<68440,68466>>,
     <<68472,68497>>, <<68521,68527>>, <<68608,68680>>, <<68736,68786>>,
     <<68800,68850>>, <<68858,68899>>, <<68912,68921>>, <<69216,69246>>,
     <<69248,69289>>, <<69296,69297>>, <<69376,69415>>, <<69424,69445>>,
     <<69457,69460>>, <<69488,69505>>, <<69552,69579>>, <<69600,69622>>,
     <<69635,69687>>, <<69714,69743>>, <<69745,69746>>, <<69749,69749>>,
     <<69763,69807>>, <<69840,69864>>, <<69872,69881>>, <<69891,69926>>,
     <<69942,69951>>, <<69956,69956>>, <<69959,69959>>, <<69968,70002>>,
     <<70006,70006>>, <<70019,70066>>, <<70081,70084>>, <<70096,70106>>,
     <<70108,70108>>, <<70113,70132>>, <<70144,70161>>, <<70163,70187>>,
     <<70272,70278>>, <<70280,70280>>, <<70282,70285>>, <<70287,70301>>,
     <<70303,70312>>, <<70320,70366>>, <<70384,70393>>, <<70405,70412>>,
     <<70415,70416>>, <<70419,70440>>, <<70442,70448>>, <<70450,70451>>,
     <<70453,70457>>, <<70461,70461>>, <<70480,70480>>, <<70493,70497>>,
     <<70656,70708>>, <<70727,70730>>, <<70736,70745>>, <<70751,70753>>,
     <<70784,70831>>, <<70852,70853>>, <<70855,70855>>, <<70864,70873>>,
     <<71040,71086>>, <<71128,71131>>, <<71168,71215>>, <<71236,71236>>,
     <<71248,71257>>, <<71296,71338>>, <<71352,71352>>, <<71360,71369>>,
     <<71424,71450>>, <<71472,71483>>, <<71488,71494>>, <<71680,71723>>,
     <<71840,71922>>, <<71935,71942>>, <<71945,71945>>, <<71948,71955>>,
     <<71957,71958>>, <<71960,71983>>, <<71999,71999>>, <<72001,72001>>,
     <<72016,72025>>, <<72096,72103>>, <<72106,72144>>, <<72161,72161>>,
     <<72163,72163>>, <<72192,72192>>, <<72203,72242>>, <<72250,72250>>,
     <<72272,72272>>, <<72284,72329>>, <<72349,72349>>, <<72368,72440>>,
     <<72704,72712>>, <<72714,72750>>, <<72768,72768>>, <<72784,72812>>,
     <<72818,72847>>, <<72960,72966>>, <<72968,72969>>, <<72971,73008>>,
     <<73030,73030>>, <<73040,73049>>, <<73056,73061>>, <<73063,73064>>,
     <<73066,73097>>, <<73112,73112>>, <<73120,73129>>, <<73440,73458>>,
     <<73648,73648>>, <<73664,73684>>, <<73728,74649>>, <<74752,74862>>,
     <<74880,75075>>, <<77712,77808>>, <<77824,78894>>, <<82944,83526>>,
     <<92160,92728>>, <<92736,92766>>, <<92768,92777>>, <<92784,92862>>,
     <<92864,92873>>, <<92880,92909>>, <<92928,92975>>, <<92992,92995>>,
     <<93008,93017>>, <<93019,93025>>, <<93027,93047>>, <<93053,93071>>,
     <<93760,93846>>, <<93952,94026>>, <<94032,94032>>, <<94099,94111>>,
     <<94176,94177>>, <<94179,94179>>, <<94208,100343>>,
     <<100352,101589>>, <<101632,101640>>, <<110576,110579>>,
     <<110581,110587>>, <<110589,110590>>, <<110592,110882>>,
     <<110928,110930>>, <<110948,110951>>, <<110960,111355>>,
     <<113664,113770>>, <<113776,113788>>, <<113792,113800>>,
     <<113808,113817>>, <<119520,119539>>, <<119648,119672>>,
     <<119808,119892>>, <<119894,119964>>, <<119966,119967>>,
     <<119970,119970>>, <<119973,119974>>, <<119977,119980>>,
     <<119982,119993>>, <<119995,119995>>, <<119997,120003>>,
     <<120005,120069>>, <<120071,120074>>, <<120077,120084>>,
     <<120086,120092>>, <<120094,120121>>, <<120123,120126>>,
     <<120128,120132>>, <<120134,120134>>, <<120138,120144>>,
     <<120146,120485>>, <<120488,120512>>, <<120514,120538>>,
     <<120540,120570>>, <<120572,120596>>, <<120598,120628>>,
     <<120630,120654>>, <<120656,120686>>, <<120688,120712>>,
     <<120714,120744>>, <<120746,120770>>, <<120772,120779>>,
     <<120782,120831>>, <<122624,122654>>, <<123136,123180>>,
     <<123191,123197>>, <<123200,123209>>, <<123214,123214>>,
     <<123536,123565>>, <<123584,123627>>, <<123632,123641>>,
     <<124896,124902>>, <<124904,124907>>, <<124909,124910>>,
     <<124912,124926>>, <<124928,125124>>, <<125127,125135>>,
     <<125184,125251>>, <<125259,125259>>, <<125264,125273>>,
     <<126065,126123>>, <<126125,126127>>, <<126129,126132>>,
     <<126209,126253>>, <<126255,126269>>, <<126464,126467>>,
     <<126469,126495>>, <<126497,126498>>, <<126500,126500>>,
     <<126503,126503>>, <<126505,126514>>, <<126516,126519>>,
     <<126521,126521>>, <<126523,126523>>, <<126530,126530>>,
     <<126535,126535>>, <<126537,126537>>, <<126539,126539>>,
     <<126541,126543>>, <<126545,126546>>, <<126548,126548>>,
     <<126551,126551>>, <<126553,126553>>, <<126555,126555>>,
     <<126557,126557>>, <<126559,126559>>, <<126561,126562>>,
     <<126564,126564>>, <<126567,126570>>, <<126572,126578>>,
     <<126580,126583>>, <<126585,126588>>, <<126590,126590>>,
     <<126592,126601>>, <<126603,126619>>, <<126625,126627>>,
     <<126629,126633>>, <<126635,126651>>, <<127232,127244>>,
     <<130032,130041>>, <<131072,173791>>, <<173824,177976>>,
     <<177984,178205>>, <<178208,183969>>, <<183984,191456>>,
     <<194560,195101>>, <<196608,201546>>}

WordChar == UNION {r[1]..r[2] : r \in WordRanges}

\* "\s" of a str pattern: the whitespace of Unicode.
WhiteSpace ==
    {9, 10, 11, 12, 13, 28, 29, 30, 31, 32, 133, 160, 5760, 8192, 8193, 8194,
     8195, 8196, 8197, 8198, 8199, 8200, 8201, 8202, 8232, 8233, 8239, 8287,
     12288}

\* str.lower(): the characters it changes into one other character, as
\* <<first, last, step, shift>>: every step-th character from first to last
\* becomes the character shift code points further on.
LowerPieces ==
    {<<65,90,1,32>>, <<192,214,1,32>>, <<216,222,1,32>>,
     <<256,302,2,1>>, <<306,310,2,1>>, <<313,327,2,1>>,
     <<330,374,2,1>>, <<376,376,1,-121>>, <<377,381,2,1>>,
     <<385,385,1,210>>, <<386,388,2,1>>, <<390,390,1,206>>,
     <<391,391,1,1>>, <<393,394,1,205>>, <<395,395,1,1>>,
     <<398,398,1,79>>, <<399,399,1,202>>, <<400,400,1,203>>,
     <<401,401,1,1>>, <<403,403,1,205>>, <<404,404,1,207>>,
     <<406,406,1,211>>, <<407,407,1,209>>, <<408,408,1,1>>,
     <<412,412,1,211>>, <<413,413,1,213>>, <<415,415,1,214>>,
     <<416,420,2,1>>, <<422,422,1,218>>, <<423,423,1,1>>,
     <<425,425,1,218>>, <<428,428,1,1>>, <<430,430,1,218>>,
     <<431,431,1,1>>, <<433,434,1,217>>, <<435,437,2,1>>,
     <<439,439,1,219>>, <<440,440,1,1>>, <<444,444,1,1>>,
     <<452,452,1,2>>, <<453,453,1,1>>, <<455,455,1,2>>,
     <<456,456,1,1>>, <<458,458,1,2>>, <<459,475,2,1>>,
     <<478,494,2,1>>, <<497,497,1,2>>, <<498,500,2,1>>,
     <<502,502,1,-97>>, <<503,503,1,-56>>, <<504,542,2,1>>,
     <<544,544,1,-130>>, <<546,562,2,1>>, <<570,570,1,10795>>,
     <<571,571,1,1>>, <<573,573,1,-163>>, <<574,574,1,10792>>,
     <<577,577,1,1>>, <<579,579,1,-195>>, <<580,580,1,69>>,
     <<581,581,1,71>>, <<582,590,2,1>>, <<880,882,2,1>>,
     <<886,886,1,1>>, <<895,895,1,116>>, <<902,902,1,38>>,
     <<904,906,1,37>>, <<908,908,1,64>>, <<910,911,1,63>>,
     <<913,929,1,32>>, <<931,939,1,32>>, <<975,975,1,8>>,
     <<984,1006,2,1>>, <<1012,1012,1,-60>>, <<1015,1015,1,1>>,
     <<1017,1017,1,-7>>, <<1018,1018,1,1>>, <<1021,1023,1,-130>>,
     <<1024,1039,1,80>>, <<1040,1071,1,32>>, <<1120,1152,2,1>>,
     <<1162,1214,2,1>>, <<1216,1216,1,15>>, <<1217,1229,2,1>>,
     <<1232,1326,2,1>>, <<1329,1366,1,48>>, <<4256,4293,1,7264>>,
     <<4295,4295,1,7264>>, <<4301,4301,1,7264>>,
     <<5024,5103,1,38864>>, <<5104,5109,1,8>>, <<7312,7354,1,-3008>>,
     <<7357,7359,1,-3008>>, <<7680,7828,2,1>>, <<7838,7838,1,-7615>>,
     <<7840,7934,2,1>>, <<7944,7951,1,-8>>, <<7960,7965,1,-8>>,
     <<7976,7983,1,-8>>, <<7992,7999,1,-8>>, <<8008,8013,1,-8>>,
     <<8025,8031,2,-8>>, <<8040,8047,1,-8>>, <<8072,8079,1,-8>>,
     <<8088,8095,1,-8>>, <<8104,8111,1,-8>>, <<8120,8121,1,-8>>,
     <<8122,8123,1,-74>>, <<8124,8124,1,-9>>, <<8136,8139,1,-86>>,
     <<8140,8140,1,-9>>, <<8152,8153,1,-8>>, <<8154,8155,1,-100>>,
     <<8168,8169,1,-8>>, <<8170,8171,1,-112>>, <<8172,8172,1,-7>>,
     <<8184,8185,1,-128>>, <<8186,8187,1,-126>>, <<8188,8188,1,-9>>,
     <<8486,8486,1,-7517>>, <<8490,8490,1,-8383>>,
     <<8491,8491,1,-8262>>, <<8498,8498,1,28>>, <<8544,8559,1,16>>,
     <<8579,8579,1,1>>, <<9398,9423,1,26>>, <<11264,11311,1,48>>,
     <<11360,11360,1,1>>, <<11362,11362,1,-10743>>,
     <<11363,11363,1,-3814>>, <<11364,11364,1,-10727>>,
     <<11367,11371,2,1>>, <<11373,11373,1,-10780>>,
     <<11374,11374,1,-10749>>, <<11375,11375,1,-10783>>,
     <<11376,11376,1,-10782>>, <<11378,11378,1,1>>,
     <<11381,11381,1,1>>, <<11390,11391,1,-10815>>,
     <<11392,11490,2,1>>, <<11499,11501,2,1>>, <<11506,11506,1,1>>,
     <<42560,42604,2,1>>, <<42624,42650,2,1>>, <<42786,42798,2,1>>,
     <<42802,42862,2,1>>, <<42873,42875,2,1>>,
     <<42877,42877,1,-35332>>, <<42878,42886,2,1>>,
     <<42891,42891,1,1>>, <<42893,42893,1,-42280>>,
     <<42896,42898,2,1>>, <<42902,42920,2,1>>,
     <<42922,42922,1,-42308>>, <<42923,42923,1,-42319>>,
     <<42924,42924,1,-42315>>, <<42925,42925,1,-42305>>,
     <<42926,42926,1,-42308>>, <<42928,42928,1,-42258>>,
     <<42929,42929,1,-42282>>, <<42930,42930,1,-42261>>,
     <<42931,42931,1,928>>, <<42932,42946,2,1>>,
     <<42948,42948,1,-48>>, <<42949,42949,1,-42307>>,
     <<42950,42950,1,-35384>>, <<42951,42953,2,1>>,
     <<42960,42960,1,1>>, <<42966,42968,2,1>>, <<42997,42997,1,1>>,
     <<65313,65338,1,32>>, <<66560,66599,1,40>>,
     <<66736,66771,1,40>>, <<66928,66938,1,39>>,
     <<66940,66954,1,39>>, <<66956,66962,1,39>>,
     <<66964,66965,1,39>>, <<68736,68786,1,64>>,
     <<71840,71871,1,32>>, <<93760,93791,1,32>>,
     <<125184,125217,1,34>>}

\* The characters of one piece.
PieceChars(p) == {p[1] + p[3] * k : k \in 0..((p[2] - p[1]) \div p[3])}

\* str.lower() of one character that becomes one other character.
LowerOf ==
    [c \in UNION {PieceChars(p) : p \in LowerPieces} |->
        c + (CHOOSE p \in LowerPieces : c \in PieceChars(p))[4]]

\* The cased characters of Unicode (uppercase, lowercase or titlecase), as
\* <<first, last>> stretches.
CasedRanges ==
    {<<65,90>>, <<97,122>>, <<170,170>>, <<181,181>>, <<186,186>>,
     <<192,214>>, <<216,246>>, <<248,442>>, <<444,447>>, <<452,659>>,
     <<661,696>>, <<704,705>>, <<736,740>>, <<837,837>>, <<880,883>>,
     <<886,887>>, <<890,893>>, <<895,895>>, <<902,902>>, <<904,906>>,
     <<908,908>>, <<910,929>>, <<931,1013>>, <<1015,1153>>, <<1162,1327>>,
     <<1329,1366>>, <<1376,1416>>, <<4256,4293>>, <<4295,4295>>,
     <<4301,4301>>, <<4304,4346>>, <<4349,4351>>, <<5024,5109>>,
     <<5112,5117>>, <<7296,7304>>, <<7312,7354>>, <<7357,7359>>,
     <<7424,7615>>, <<7680,7957>>, <<7960,7965>>, <<7968,8005>>,
     <<8008,8013>>, <<8016,8023>>, <<8025,8025>>, <<8027,8027>>,
     <<8029,8029>>, <<8031,8061>>, <<8064,8116>>, <<8118,8124>>,
     <<8126,8126>>, <<8130,8132>>, <<8134,8140>>, <<8144,8147>>,
     <<8150,8155>>, <<8160,8172>>, <<8178,8180>>, <<8182,8188>>,
     <<8305,8305>>, <<8319,8319>>, <<8336,8348>>, <<8450,8450>>,
     <<8455,8455>>, <<8458,8467>>, <<8469,8469>>, <<8473,8477>>,
     <<8484,8484>>, <<8486,8486>>, <<8488,8488>>, <<8490,8493>>,
     <<8495,8500>>, <<8505,8505>>, <<8508,8511>>, <<8517,8521>>,
     <<8526,8526>>, <<8544,8575>>, <<8579,8580>>, <<9398,9449>>,
     <<11264,11492>>, <<11499,11502>>, <<11506,11507>>, <<11520,11557>>,
     <<11559,11559>>, <<11565,11565>>, <<42560,42605>>, <<42624,42653>>,
     <<42786,42887>>, <<42891,42894>>, <<42896,42954>>, <<42960,42961>>,
     <<42963,42963>>, <<42965,42969>>, <<42997,42998>>, <<43000,43002>>,
     <<43824,43866>>, <<43868,43880>>, <<43888,43967>>, <<64256,64262>>,
     <<64275,64279>>, <<65313,65338>>, <<65345,65370>>, <<66560,66639>>,
     <<66736,66771>>, <<66776,66811>>, <<66928,66938>>, <<66940,66954>>,
     <<66956,66962>>, <<66964,66965>>, <<66967,66977>>, <<66979,66993>>,
     <<66995,67001>>, <<67003,67004>>, <<67456,67456>>, <<67459,67461>>,
     <<67463,67504>>, <<67506,67514>>, <<68736,68786>>, <<68800,68850>>,
     <<71840,71903>>, <<93760,93823>>, <<119808,119892>>, <<119894,119964>>,
     <<119966,119967>>, <<119970,119970>>, <<119973,119974>>,
     <<119977,119980>>, <<119982,119993>>, <<119995,119995>>,
     <<119997,120003>>, <<120005,120069>>, <<120071,120074>>,
     <<120077,120084>>, <<120086,120092>>, <<120094,120121>>,
     <<120123,120126>>, <<120128,120132>>, <<120134,120134>>,
     <<120138,120144>>, <<120146,120485>>, <<120488,120512>>,
     <<120514,120538>>, <<120540,120570>>, <<120572,120596>>,
     <<120598,120628>>, <<120630,120654>>, <<120656,120686>>,
     <<120688,120712>>, <<120714,120744>>, <<120746,120770>>,
     <<120772,120779>>, <<122624,122633>>, <<122635,122654>>,
     <<125184,125251>>, <<127280,127305>>, <<127312,127337>>,
     <<127344,127369>>}

Cased == UNION {r[1]..r[2] : r \in CasedRanges}

\* The case-ignorable characters of Unicode (marks, modifier letters, the
\* apostrophe, the full stop and the like), as <<first, last>> stretches.
CaseIgnorableRanges ==
    {<<39,39>>, <<46,46>>, <<58,58>>, <<94,94>>, <<96,96>>, <<168,168>>,
     <<173,173>>, <<175,175>>, <<180,180>>, <<183,184>>, <<688,879>>,
     <<884,885>>, <<890,890>>, <<900,901>>, <<903,903>>, <<1155,1161>>,
     <<1369,1369>>, <<1375,1375>>, <<1425,1469>>, <<1471,1471>>,
     <<1473,1474>>, <<1476,1477>>, <<1479,1479>>, <<1524,1524>>,
     <<1536,1541>>, <<1552,1562>>, <<1564,1564>>, <<1600,1600>>,
     <<1611,1631>>, <<1648,1648>>, <<1750,1757>>, <<1759,1768>>,
     <<1770,1773>>, <<1807,1807>>, <<1809,1809>>, <<1840,1866>>,
     <<1958,1968>>, <<2027,2037>>, <<2042,2042>>, <<2045,2045>>,
     <<2070,2093>>, <<2137,2139>>, <<2184,2184>>, <<2192,2193>>,
     <<2200,2207>>, <<2249,2306>>, <<2362,2362>>, <<2364,2364>>,
     <<2369,2376>>, <<2381,2381>>, <<2385,2391>>, <<2402,2403>>,
     <<2417,2417>>, <<2433,2433>>, <<2492,2492>>, <<2497,2500>>,
     <<2509,2509>>, <<2530,2531>>, <<2558,2558>>, <<2561,2562>>,
     <<2620,2620>>, <<2625,2626>>, <<2631,2632>>, <<2635,2637>>,
     <<2641,2641>>, <<2672,2673>>, <<2677,2677>>, <<2689,2690>>,
     <<2748,2748>>, <<2753,2757>>, <<2759,2760>>, <<2765,2765>>,
     <<2786,2787>>, <<2810,2815>>, <<2817,2817>>, <<2876,2876>>,
     <<2879,2879>>, <<2881,2884>>, <<2893,2893>>, <<2901,2902>>,
     <<2914,2915>>, <<2946,2946>>, <<3008,3008>>, <<3021,3021>>,
     <<3072,3072>>, <<3076,3076>>, <<3132,3132>>, <<3134,3136>>,
     <<3142,3144>>, <<3146,3149>>, <<3157,3158>>, <<3170,3171>>,
     <<3201,3201>>, <<3260,3260>>, <<3263,3263>>, <<3270,3270>>,
     <<3276,3277>>, <<3298,3299>>, <<3328,3329>>, <<3387,3388>>,
     <<3393,3396>>, <<3405,3405>>, <<3426,3427>>, <<3457,3457>>,
     <<3530,3530>>, <<3538,3540>>, <<3542,3542>>, <<3633,3633>>,
     <<3636,3642>>, <<3654,3662>>, <<3761,3761>>, <<3764,3772>>,
     <<3782,3782>>, <<3784,3789>>, <<3864,3865>>, <<3893,3893>>,
     <<3895,3895>>, <<3897,3897>>, <<3953,3966>>, <<3968,3972>>,
     <<3974,3975>>, <<3981,3991>>, <<3993,4028>>, <<4038,4038>>,
     <<4141,4144>>, <<4146,4151>>, <<4153,4154>>, <<4157,4158>>,
     <<4184,4185>>, <<4190,4192>>, <<4209,4212>>, <<4226,4226>>,
     <<4229,4230>>, <<4237,4237>>, <<4253,4253>>, <<4348,4348>>,
     <<4957,4959>>, <<5906,5908>>, <<5938,5939>>, <<5970,5971>>,
     <<6002,6003>>, <<6068,6069>>, <<6071,6077>>, <<6086,6086>>,
     <<6089,6099>>, <<6103,6103>>, <<6109,6109>>, <<6155,6159>>,
     <<6211,6211>>, <<6277,6278>>, <<6313,6313>>, <<6432,6434>>,
     <<6439,6440>>, <<6450,6450>>, <<6457,6459>>, <<6679,6680>>,
     <<6683,6683>>, <<6742,6742>>, <<6744,6750>>, <<6752,6752>>,
     <<6754,6754>>, <<6757,6764>>, <<6771,6780>>, <<6783,6783>>,
     <<6823,6823>>, <<6832,6862>>, <<6912,6915>>, <<6964,6964>>,
     <<6966,6970>>, <<6972,6972>>, <<6978,6978>>, <<7019,7027>>,
     <<7040,7041>>, <<7074,7077>>, <<7080,7081>>, <<7083,7085>>,
     <<7142,7142>>, <<7144,7145>>, <<7149,7149>>, <<7151,7153>>,
     <<7212,7219>>, <<7222,7223>>, <<7288,7293>>, <<7376,7378>>,
     <<7380,7392>>, <<7394,7400>>, <<7405,7405>>, <<7412,7412>>,
     <<7416,7417>>, <<7468,7530>>, <<7544,7544>>, <<7579,7679>>,
     <<8125,8125>>, <<8127,8129>>, <<8141,8143>>, <<8157,8159>>,
     <<8173,8175>>, <<8189,8190>>, <<8203,8207>>, <<8216,8217>>,
     <<8228,8228>>, <<8231,8231>>, <<8234,8238>>, <<8288,8292>>,
     <<8294,8303>>, <<8305,8305>>, <<8319,8319>>, <<8336,8348>>,
     <<8400,8432>>, <<11388,11389>>, <<11503,11505>>, <<11631,11631>>,
     <<11647,11647>>, <<11744,11775>>, <<11823,11823>>, <<12293,12293>>,
     <<12330,12333>>, <<12337,12341>>, <<12347,12347>>, <<12441,12446>>,
     <<12540,12542>>, <<40981,40981>>, <<42232,42237>>, <<42508,42508>>,
     <<42607,42610>>, <<42612,42621>>, <<42623,42623>>, <<42652,42655>>,
     <<42736,42737>>, <<42752,42785>>, <<42864,42864>>, <<42888,42890>>,
     <<42994,42996>>, <<43000,43001>>, <<43010,43010>>, <<43014,43014>>,
     <<43019,43019>>, <<43045,43046>>, <<43052,43052>>, <<43204,43205>>,
     <<43232,43249>>, <<43263,43263>>, <<43302,43309>>, <<43335,43345>>,
     <<43392,43394>>, <<43443,43443>>, <<43446,43449>>, <<43452,43453>>,
     <<43471,43471>>, <<43493,43494>>, <<43561,43566>>, <<43569,43570>>,
     <<43573,43574>>, <<43587,43587>>, <<43596,43596>>, <<43632,43632>>,
     <<43644,43644>>, <<43696,43696>>, <<43698,43700>>, <<43703,43704>>,
     <<43710,43711>>, <<43713,43713>>, <<43741,43741>>, <<43756,43757>>,
     <<43763,43764>>, <<43766,43766>>, <<43867,43871>>, <<43881,43883>>,
     <<44005,44005>>, <<44008,44008>>, <<44013,44013>>, <<64286,64286>>,
     <<64434,64450>>, <<65024,65039>>, <<65043,65043>>, <<65056,65071>>,
     <<65106,65106>>, <<65109,65109>>, <<65279,65279>>, <<65287,65287>>,
     <<65294,65294>>, <<65306,65306>>, <<65342,65342>>, <<65344,65344>>,
     <<65392,65392>>, <<65438,65439>>, <<65507,65507>>, <<65529,65531>>,
     <<66045,66045>>, <<66272,66272>>, <<66422,66426>>, <<67456,67461>>,
     <<67463,67504>>, <<67506,67514>>, <<68097,68099>>, <<68101,68102>>,
     <<68108,68111>>, <<68152,68154>>, <<68159,68159>>, <<68325,68326>>,
     <<68900,68903>>, <<69291,69292>>, <<69446,69456>>, <<69506,69509>>,
     <<69633,69633>>, <<69688,69702>>, <<69744,69744>>, <<69747,69748>>,
     <<69759,69761>>, <<69811,69814>>, <<69817,69818>>, <<69821,69821>>,
     <<69826,69826>>, <<69837,69837>>, <<69888,69890>>, <<69927,69931>>,
     <<69933,69940>>, <<70003,70003>>, <<70016,70017>>, <<70070,70078>>,
     <<70089,70092>>, <<70095,70095>>, <<70191,70193>>, <<70196,70196>>,
     <<70198,70199>>, <<70206,70206>>, <<70367,70367>>, <<70371,70378>>,
     <<70400,70401>>, <<70459,70460>>, <<70464,70464>>, <<70502,70508>>,
     <<70512,70516>>, <<70712,70719>>, <<70722,70724>>, <<70726,70726>>,
     <<70750,70750>>, <<70835,70840>>, <<70842,70842>>, <<70847,70848>>,
     <<70850,70851>>, <<71090,71093>>, <<71100,71101>>, <<71103,71104>>,
     <<71132,71133>>, <<71219,71226>>, <<71229,71229>>, <<71231,71232>>,
     <<71339,71339>>, <<71341,71341>>, <<71344,71349>>, <<71351,71351>>,
     <<71453,71455>>, <<71458,71461>>, <<71463,71467>>, <<71727,71735>>,
     <<71737,71738>>, <<71995,71996>>, <<71998,71998>>, <<72003,72003>>,
     <<72148,72151>>, <<72154,72155>>, <<72160,72160>>, <<72193,72202>>,
     <<72243,72248>>, <<72251,72254>>, <<72263,72263>>, <<72273,72278>>,
     <<72281,72283>>, <<72330,72342>>, <<72344,72345>>, <<72752,72758>>,
     <<72760,72765>>, <<72767,72767>>, <<72850,72871>>, <<72874,72880>>,
     <<72882,72883>>, <<72885,72886>>, <<73009,73014>>, <<73018,73018>>,
     <<73020,73021>>, <<73023,73029>>, <<73031,73031>>, <<73104,73105>>,
     <<73109,73109>>, <<73111,73111>>, <<73459,73460>>, <<78896,78904>>,
     <<92912,92916>>, <<92976,92982>>, <<92992,92995>>, <<94031,94031>>,
     <<94095,94111>>, <<94176,94177>>, <<94179,94180>>, <<110576,110579>>,
     <<110581,110587>>, <<110589,110590>>, <<113821,113822>>,
     <<113824,113827>>, <<118528,118573>>, <<118576,118598>>,
     <<119143,119145>>, <<119155,119170>>, <<119173,119179>>,
     <<119210,119213>>, <<119362,119364>>, <<121344,121398>>,
     <<121403,121452>>, <<121461,121461>>, <<121476,121476>>,
     <<121499,121503>>, <<121505,121519>>, <<122880,122886>>,
     <<122888,122904>>, <<122907,122913>>, <<122915,122916>>,
     <<122918,122922>>, <<123184,123197>>, <<123566,123566>>,
     <<123628,123631>>, <<125136,125142>>, <<125252,125259>>,
     <<127995,127999>>, <<917505,917505>>, <<917536,917631>>,
     <<917760,917999>>}

CaseIgnorable == UNION {r[1]..r[2] : r \in CaseIgnorableRanges}

\* Line 219: "{1,5}".
MaxTickerLen == 5

\* str.lower() at lines 211 and 214, of one character by itself: the dotted
\* capital I, U+0130, becomes "i" and the combining dot U+0307, every other
\* character one character.
ToLower(c) ==
    IF c = 304 THEN <<105, 775>>
    ELSE IF c \in DOMAIN LowerOf THEN <<LowerOf[c]>>
    ELSE <<c>>

\* Going back from position j over case-ignorable characters, the first
\* other character is a cased one.
RECURSIVE CasedBefore(_, _)
CasedBefore(s, j) ==
    IF j < 1 THEN FALSE
    ELSE IF s[j] \in CaseIgnorable THEN CasedBefore(s, j - 1)
    ELSE s[j] \in Cased

\* The same going forward from position j.
RECURSIVE CasedAfter(_, _)
CasedAfter(s, j) ==
    IF j > Len(s) THEN FALSE
    ELSE IF s[j] \in CaseIgnorable THEN CasedAfter(s, j + 1)
    ELSE s[j] \in Cased

\* str.lower() of the capital sigma, U+03A3, at position k: the final sigma,
\* U+03C2, where a word ends after a cased character; else as ToLower.
FinalSigma(s, k) ==
    s[k] = 931 /\ CasedBefore(s, k - 1) /\ ~CasedAfter(s, k + 1)

RECURSIVE LowerFrom(_, _)
LowerFrom(s, k) ==
    IF k > Len(s) THEN <<>>
    ELSE (IF FinalSigma(s, k) THEN <<962>> ELSE ToLower(s[k]))
            \o LowerFrom(s, k + 1)

\* str.lower() at lines 211 and 214.
LowerText(s) == LowerFrom(s, 1)

\* The "in" operator of lines 211 and 214: w is a substring of s.
Contains(s, w) ==
    \E k \in 1..(Len(s) - Len(w) + 1) : SubSeq(s, k, k + Len(w) - 1) = w

\* Lines 209-217: signal_type; the two literals are "buy" and "sell".
SignalType(title) ==
    IF Contains(LowerText(title), <<98, 117, 121>>) THEN "Buy"
    ELSE IF Contains(LowerText(title), <<115, 101, 108, 108>>) THEN "Sell"
    ELSE "None"

IsWordAt(s, k) == k \in 1..Len(s) /\ s[k] \in WordChar

BoundaryIgnored(s, k) == TRUE

\* "\b" before position k: exactly one side of it is a word character.
Boundary(s, k) == IsWordAt(s, k - 1) # IsWordAt(s, k)

\* "(?=\s*\$)" at position k: whitespace is skipped and a dollar sign follows.
RECURSIVE DollarAhead(_, _)
DollarAhead(s, k) ==
    IF k > Len(s) THEN FALSE
    ELSE IF s[k] \in WhiteSpace THEN DollarAhead(s, k + 1)
    ELSE s[k] = Dollar

\* "([A-Z]{1,5})\b(?=\s*\$)" tried at position p: the longest of the
\* lengths 1..5 for which the rest of the pattern matches, 0 when none does.
GreedyLen(s, p) ==
    LET fits == {n \in 1..MaxTickerLen :
                    /\ p + n - 1 <= Len(s)
                    /\ \A k \in p..(p + n - 1) : s[k] \in Upper
                    /\ Boundary(s, p + n)
                    /\ DollarAhead(s, p + n)}
    IN  IF fits = {} THEN 0 ELSE CHOOSE n \in fits : \A m \in fits : m <= n

\* re.search at line 219: the leftmost position where the pattern matches;
\* the empty sequence stands for None.
RECURSIVE SearchFrom(_, _)
SearchFrom(s, p) ==
    IF p > Len(s) THEN <<>>
    ELSE IF Boundary(s, p) /\ GreedyLen(s, p) > 0
         THEN SubSeq(s, p, p + GreedyLen(s, p) - 1)
         ELSE SearchFrom(s, p + 1)

\* Lines 218-221: group(0) of the match, or "-".
TickerOf(title) ==
    LET m == SearchFrom(title, 1)
    IN  IF m = <<>> THEN <<Hyphen>> ELSE m

\* Lines 224-231: the dict given to send_ws_message.
SignalOf(title) ==
    [name |-> "Hedgeye", type |-> SignalType(title),
     ticker |-> TickerOf(title), sender |-> "hedgeye"]

\* No dict was built.
NoSignal == [name |-> "-", type |-> "-", ticker |-> <<>>, sender |-> "-"]

\* The text of the titles the feed may show.
\* "Hedgeye Buy Signal $AAPL"
BuySignalTitle ==
    <<72, 101, 100, 103, 101, 121, 101, 32, 66, 117, 121, 32, 83, 105, 103,
      110, 97, 108, 32, 36, 65, 65, 80, 76>>
\* "SELL TSLA $700"
SellTslaTitle ==
    <<83, 69, 76, 76, 32, 84, 83, 76, 65, 32, 36, 55, 48, 48>>
\* "Buy AAPL $150"
BuyAaplTitle ==
    <<66, 117, 121, 32, 65, 65, 80, 76, 32, 36, 49, 53, 48>>
\* "Update on MSFT"
UpdateTitle ==
    <<85, 112, 100, 97, 116, 101, 32, 111, 110, 32, 77, 83, 70, 84>>
\* "buy and sell signal $X"
BuyAndSellTitle ==
    <<98, 117, 121, 32, 97, 110, 100, 32, 115, 101, 108, 108, 32, 115, 105,
      103, 110, 97, 108, 32, 36, 88>>
TitleText(n) ==
    IF n = 1 THEN BuySignalTitle
    ELSE IF n = 2 THEN SellTslaTitle
    ELSE IF n = 3 THEN BuyAaplTitle
    ELSE UpdateTitle \o [k \in 1..n |-> 33]

SignalOfTitle == [n \in Titles |-> SignalOf(TitleText(n))]

\* Steps that are not a poll leave this observation.
Quiet(op) ==
    [op |-> op, idx |-> 0, fetched |-> "-", alert |-> NullAlert,
     tg |-> "none", ws |-> "none", signal |-> NoSignal, again |-> FALSE,
     slept |-> FALSE]

----------------------------------------------------------------------------
\* Lines 166-169, 189, 243: the branch the loop takes for a clock reading.
\* Line 167 and line 189: the two comparisons, for any schedule.
LoginWindowOf(t, pre, open) == pre <= t /\ t < open
OpenWindowOf(t, open, close) == open <= t /\ t <= close

BranchAtOpenIsLogin(t, first, pre, open, close) ==
    IF (pre <= t /\ t <= open) \/ first THEN "login"
    ELSE IF OpenWindowOf(t, open, close) THEN "open"
    ELSE "closed"

\* Lines 166-169, 189, 243: the if / elif / else of one loop cycle.
BranchAt(t, first, pre, open, close) ==
    IF LoginWindowOf(t, pre, open) \/ first THEN "login"
    ELSE IF OpenWindowOf(t, open, close) THEN "open"
    ELSE "closed"

InLoginWindow(t) == LoginWindowOf(t, PreMarketLoginAt, MarketOpenAt)
InOpenWindow(t) == OpenWindowOf(t, MarketOpenAt, MarketCloseAt)

BranchUnforced(t, first) ==
    IF InLoginWindow(t) THEN "login"
    ELSE IF InOpenWindow(t) THEN "open"
    ELSE "closed"

Branch(t, first) ==
    BranchAt(t, first, PreMarketLoginAt, MarketOpenAt, MarketCloseAt)

\* The first two passes of the "for session in sessions" loop (lines 194-238)
\* when two sessions are polled, the first of them shows TrackedTitle in both
\* passes and the second shows nothing in the first pass: the number of
\* dispatches of each pass and the Signals given to send_ws_message.
TrackedTitle == 1
NotPolledYet ==
    [stage |-> "start", first |-> 0, second |-> 0, signals |-> <<>>]
NotTracked == [stage |-> "off", first |-> 0, second |-> 0, signals |-> <<>>]

CyclesAfter(c, ss, e) ==
    LET n == IF e.tg # "none" THEN 1 ELSE 0
        sent == IF e.ws # "none" THEN <<e.signal>> ELSE <<>>
        shows == e.idx = 1 /\ e.fetched = "Alert"
                     /\ e.alert.title = TrackedTitle
    IN  IF /\ c.stage = "start" /\ shows
           /\ Len(ss) = 2 /\ \A k \in 1..2 : ss[k].authed
        THEN [stage |-> "first_1", first |-> n, second |-> 0,
              signals |-> sent]
        ELSE IF c.stage = "first_1" /\ e.idx = 2 /\ e.fetched = "None"
        THEN [c EXCEPT !.stage = "first_2"]
        ELSE IF c.stage = "first_2" /\ shows
        THEN [c EXCEPT !.stage = "second_1", !.second = n,
                       !.signals = c.signals \o sent]
        ELSE NotTracked

Init ==
    /\ pc = "top"
    /\ first_time_ever = TRUE
    /\ logged_in = FALSE
    /\ market_is_open = FALSE
    /\ sessions = <<>>
    /\ last_alert_details = EmptyDict
    /\ i = 0
    /\ retry_count = 0
    /\ at_login_url = FALSE
    /\ day = 0
    /\ now \in Ticks
    /\ prev_title = NoTitle
    /\ dispatched_today = {}
    /\ first_cycles = NotPolledYet
    /\ ev = Quiet("start")

----------------------------------------------------------------------------
\* The top of "while True" (lines 160-164): the clock is read, and it never
\* runs backwards within a day.
ClockReadings == {t \in Ticks : t >= now}

SessionsOnlyIfAuthed(ss, acct, ok, d, t) ==
    IF ok
       THEN Append(ss, [account |-> acct, authed |-> ok, day |-> d,
                        after_close |-> (t > MarketCloseAt)])
       ELSE ss

\* Lines 181-183: the session made from the driver is appended whatever
\* login() returned (its result is discarded at line 179).
SessionsAfterLogin(ss, acct, ok, d, t) ==
    Append(ss, [account |-> acct, authed |-> ok, day |-> d,
                after_close |-> (t > MarketCloseAt)])

AlwaysLogin == TRUE

\* Line 171: "if not logged_in".
NeedsLogin == ~logged_in

\* Lines 166-187, "if not logged_in" taken: sessions = [] and the account loop
\* starts with a fresh browser.
StartLogin ==
    /\ pc = "top"
    /\ \E t \in ClockReadings :
        /\ Branch(t, first_time_ever) = "login"
        /\ now' = t
    /\ NeedsLogin
    /\ first_time_ever' = FALSE
    /\ sessions' = <<>>
    /\ i' = 1
    /\ pc' = "login_open"
    /\ ev' = Quiet("start_login")
    /\ UNCHANGED <<dispatched_today, first_cycles>>
    /\ UNCHANGED <<logged_in, market_is_open, last_alert_details, retry_count,
                   at_login_url, day, prev_title>>

\* Lines 166-171 with logged_in already set: the branch body does nothing and
\* the loop goes straight back to its top.
LoginWindowIdle ==
    /\ pc = "top"
    /\ \E t \in ClockReadings :
        /\ Branch(t, first_time_ever) = "login"
        /\ now' = t
    /\ ~NeedsLogin
    /\ first_time_ever' = FALSE
    /\ ev' = Quiet("login_idle")
    /\ UNCHANGED <<dispatched_today, first_cycles>>
    /\ UNCHANGED <<pc, logged_in, market_is_open, sessions, last_alert_details,
                   i, retry_count, at_login_url, day, prev_title>>

\* login(), lines 54-58: the login page is requested; the browser may or may
\* not still be on it afterwards.
OpenLoginPage ==
    /\ pc = "login_open"
    /\ retry_count' = 0
    /\ at_login_url' \in BOOLEAN
    /\ pc' = "login_loop"
    /\ ev' = Quiet("open_login_page")
    /\ UNCHANGED <<dispatched_today, first_cycles>>
    /\ UNCHANGED <<first_time_ever, logged_in, market_is_open, sessions,
                   last_alert_details, i, day, now, prev_title>>

\* login(), line 59: the while condition.
LoginLoopRuns == at_login_url /\ retry_count < RetryBudget

\* login(), lines 59-81: one pass of the retry loop submits the credentials.
LoginAttempt ==
    /\ pc = "login_loop"
    /\ LoginLoopRuns
    /\ retry_count' = retry_count + 1
    /\ at_login_url' \in BOOLEAN
    /\ ev' = Quiet("login_attempt")
    /\ UNCHANGED <<dispatched_today, first_cycles>>
    /\ UNCHANGED <<pc, first_time_ever, logged_in, market_is_open, sessions,
                   last_alert_details, i, day, now, prev_title>>

\* login(), lines 83-86: the value returned for a reading of current_url.
LoginResult(on_login_page) == ~on_login_page

\* login(), lines 83-86, then lines 180-187 of the caller: current_url is
\* read once more, after the read of line 59 that ended the loop, and the
\* browser may have moved between the two; login returns whether this
\* reading is off the login page; the caller appends the session and goes
\* on to the next account, or sets logged_in after the last one.
LoginReturn ==
    /\ pc = "login_loop"
    /\ ~LoginLoopRuns
    /\ at_login_url' \in BOOLEAN
    /\ sessions' = SessionsAfterLogin(sessions, i, LoginResult(at_login_url'),
                                      day, now)
    /\ IF i < NumAccounts
          THEN /\ i' = i + 1
               /\ pc' = "login_open"
               /\ UNCHANGED logged_in
          ELSE /\ i' = 0
               /\ pc' = "top"
               /\ logged_in' = TRUE
    /\ ev' = Quiet("login_return")
    /\ UNCHANGED <<dispatched_today, first_cycles>>
    /\ UNCHANGED <<first_time_ever, market_is_open, last_alert_details,
                   retry_count, day, now, prev_title>>

\* Lines 176-184 are outside every try: an exception of the browser driver
\* in Chrome(), set_page_load_timeout, randomize_user_agent or inside login()
\* (driver.get, current_url, random_scroll, find_element, send_keys) ends
\* monitor_feeds_async before anything is assigned.
LoginRaises ==
    /\ pc \in {"login_open", "login_loop"}
    /\ pc' = "crashed"
    /\ ev' = Quiet("login_raises")
    /\ UNCHANGED <<dispatched_today, first_cycles>>
    /\ UNCHANGED <<first_time_ever, logged_in, market_is_open, sessions,
                   last_alert_details, i, retry_count, at_login_url, day, now,
                   prev_title>>

\* Lines 181-182: login() has returned, with its read of current_url at line
\* 83, and Session() or transfer_driver_cookies_to_session raises: nothing
\* is appended and monitor_feeds_async ends.
SessionRaises ==
    /\ pc = "login_loop"
    /\ ~LoginLoopRuns
    /\ at_login_url' \in BOOLEAN
    /\ pc' = "crashed"
    /\ ev' = Quiet("session_raises")
    /\ UNCHANGED <<dispatched_today, first_cycles>>
    /\ UNCHANGED <<first_time_ever, logged_in, market_is_open, sessions,
                   last_alert_details, i, retry_count, day, now, prev_title>>

\* Lines 183-184: the session is appended and then driver.quit() raises:
\* monitor_feeds_async ends with the account's session in the list, the
\* account index where it was and logged_in not yet set.
QuitRaises ==
    /\ pc = "login_loop"
    /\ ~LoginLoopRuns
    /\ at_login_url' \in BOOLEAN
    /\ sessions' = SessionsAfterLogin(sessions, i, LoginResult(at_login_url'),
                                      day, now)
    /\ pc' = "crashed"
    /\ ev' = Quiet("quit_raises")
    /\ UNCHANGED <<dispatched_today, first_cycles>>
    /\ UNCHANGED <<first_time_ever, logged_in, market_is_open,
                   last_alert_details, i, retry_count, day, now, prev_title>>

\* Lines 243-245: outside both windows the two flags are cleared; sessions
\* and last_alert_details are not assigned.
MarketClosed ==
    /\ pc = "top"
    /\ \E t \in ClockReadings :
        /\ Branch(t, first_time_ever) = "closed"
        /\ now' = t
    /\ logged_in' = FALSE
    /\ market_is_open' = FALSE
    /\ pc' = "overnight"
    /\ ev' = Quiet("closed")
    /\ UNCHANGED <<dispatched_today, first_cycles>>
    /\ UNCHANGED <<first_time_ever, sessions, last_alert_details, i,
                   retry_count, at_login_url, day, prev_title>>

\* Line 246, sleep_until_market_open(): returns once the clock is in the
\* login window or in the open window of the next trading day.
WakeTicks == {t \in Ticks : InLoginWindow(t) \/ InOpenWindow(t)}
NextTradingDay == day + 1

OvernightWait ==
    /\ pc = "overnight"
    /\ NextTradingDay <= MaxDay
    /\ day' = NextTradingDay
    /\ now' \in WakeTicks
    /\ prev_title' = NoTitle
    /\ pc' = "top"
    /\ ev' = [Quiet("overnight_wait") EXCEPT !.slept = TRUE]
    /\ dispatched_today' = {}
    /\ UNCHANGED first_cycles
    /\ UNCHANGED <<first_time_ever, logged_in, market_is_open, sessions,
                   last_alert_details, i, retry_count, at_login_url>>

\* Lines 189-194: in the open window the flag is set and the for loop over
\* sessions begins.
MarketOpen ==
    /\ pc = "top"
    /\ \E t \in ClockReadings :
        /\ Branch(t, first_time_ever) = "open"
        /\ now' = t
    /\ market_is_open' = TRUE
    /\ IF sessions = <<>>
          THEN pc' = "top" /\ i' = 0
          ELSE pc' = "poll" /\ i' = 1
    /\ ev' = Quiet("open")
    /\ UNCHANGED <<dispatched_today, first_cycles>>
    /\ UNCHANGED <<first_time_ever, logged_in, sessions, last_alert_details,
                   retry_count, at_login_url, day, prev_title>>

----------------------------------------------------------------------------
\* The body of "for session in sessions" (lines 194-238) and the handler
\* around the whole loop (lines 240-242).

IsNewAnyField(alert, last) ==
    alert.title # last.title \/ alert.created_at # last.created_at

IsNewAlways(alert, last) == TRUE

\* Line 201: the title is compared with the stored title, nothing else.
IsNew(alert, last) == alert.title # last.title

\* send_telegram_message and send_ws_message: an awaited sink call returns,
\* or fails and the failure reaches the caller.
SinkOutcomes == {"ok", "fail"}

RecordedWithoutStamp(alert) == [title |-> alert.title, created_at |-> NoStamp]

\* Lines 234-237: the stored alert keeps the title and created_at.
Recorded(alert) == [title |-> alert.title, created_at |-> alert.created_at]

ExceptionPropagates == "crashed"

\* Lines 240-242: "except Exception" is around the for loop, so the handler
\* logs, pauses and leaves the loop over sessions; the while loop goes on.
AfterException == "top"

\* Line 194: the for loop goes to the next session, or ends and the while
\* loop starts over.
NextSession ==
    IF i < Len(sessions)
       THEN pc' = "poll" /\ i' = i + 1
       ELSE pc' = "top" /\ i' = 0

NoPause == FALSE

\* The pauses of the monitoring body: line 198 after a null result, line 238
\* after an alert, line 242 in the exception handler.
PauseAfterNone == TRUE
PauseAfterAlert == TRUE
PauseAfterError == TRUE

\* What one pass of the for body has done so far.  tg and ws are the two
\* sink calls: "none" not made, "called" made and awaited, "ok" returned,
\* "fail" raised.  Between the awaits, alert holds the local alert_details.
PollEv(fetched, alert, tg, slept) ==
    [op |-> "poll", idx |-> i, fetched |-> fetched, alert |-> alert,
     tg |-> tg, ws |-> "none", signal |-> NoSignal,
     again |-> alert.title \in dispatched_today,
     slept |-> slept]

\* Lines 195-199: nothing of interest on the page; pause 0.7 s and continue.
FetchNone ==
    /\ pc = "poll"
    /\ NextSession
    /\ ev' = PollEv("None", NullAlert, "none", PauseAfterNone)
    /\ first_cycles' = CyclesAfter(first_cycles, sessions, ev')
    /\ UNCHANGED dispatched_today
    /\ UNCHANGED <<first_time_ever, logged_in, market_is_open, sessions,
                   last_alert_details, retry_count, at_login_url, day, now,
                   prev_title>>

\* Line 195 raising (session.get, or fromisoformat at line 141, which is
\* outside the try blocks of fetch_alert_details): lines 240-242.
FetchRaises ==
    /\ pc = "poll"
    /\ pc' = AfterException
    /\ i' = 0
    /\ ev' = PollEv("Raise", NullAlert, "none", PauseAfterError)
    /\ first_cycles' = CyclesAfter(first_cycles, sessions, ev')
    /\ UNCHANGED dispatched_today
    /\ UNCHANGED <<first_time_ever, logged_in, market_is_open, sessions,
                   last_alert_details, retry_count, at_login_url, day, now,
                   prev_title>>

\* Lines 195-201 and 238: an alert whose title is the stored one; pause 0.6 s.
FetchRepeat ==
    /\ pc = "poll"
    /\ \E a \in Alerts :
        /\ ~IsNew(a, last_alert_details)
        /\ ev' = PollEv("Alert", a, "none", PauseAfterAlert)
        /\ prev_title' = a.title
    /\ NextSession
    /\ first_cycles' = CyclesAfter(first_cycles, sessions, ev')
    /\ UNCHANGED dispatched_today
    /\ UNCHANGED <<first_time_ever, logged_in, market_is_open, sessions,
                   last_alert_details, retry_count, at_login_url, day, now>>

\* Lines 195-203, up to the await: an alert with another title; the
\* notification is built and send_telegram_message is called.
CallNotification ==
    /\ pc = "poll"
    /\ \E a \in Alerts :
        /\ IsNew(a, last_alert_details)
        /\ ev' = PollEv("Alert", a, "called", FALSE)
        /\ prev_title' = a.title
    /\ pc' = "notify"
    /\ UNCHANGED <<dispatched_today, first_cycles>>
    /\ UNCHANGED <<first_time_ever, logged_in, market_is_open, sessions,
                   last_alert_details, i, retry_count, at_login_url, day, now>>

\* Line 203 returns; lines 209-223, up to the await: the Signal is built from
\* the title and send_ws_message is called.
NotificationReturns ==
    /\ pc = "notify"
    /\ "ok" \in SinkOutcomes
    /\ ev' = [ev EXCEPT !.tg = "ok", !.ws = "called",
                        !.signal = SignalOfTitle[ev.alert.title]]
    /\ pc' = "send"
    /\ UNCHANGED <<dispatched_today, first_cycles>>
    /\ UNCHANGED <<first_time_ever, logged_in, market_is_open, sessions,
                   last_alert_details, i, retry_count, at_login_url, day, now,
                   prev_title>>

\* Line 203 raises, then lines 240-242: send_ws_message is not called,
\* nothing is stored and the loop over sessions is left.
NotificationRaises ==
    /\ pc = "notify"
    /\ "fail" \in SinkOutcomes
    /\ ev' = [ev EXCEPT !.tg = "fail", !.slept = PauseAfterError]
    /\ pc' = AfterException
    /\ i' = 0
    /\ first_cycles' = CyclesAfter(first_cycles, sessions, ev')
    /\ UNCHANGED dispatched_today
    /\ UNCHANGED <<first_time_ever, logged_in, market_is_open, sessions,
                   last_alert_details, retry_count, at_login_url, day, now,
                   prev_title>>

\* Line 223 returns; lines 233-238: the alert is stored; pause 0.6 s.
MessageBusReturns ==
    /\ pc = "send"
    /\ "ok" \in SinkOutcomes
    /\ ev' = [ev EXCEPT !.ws = "ok", !.slept = PauseAfterAlert]
    /\ last_alert_details' = Recorded(ev.alert)
    /\ NextSession
    /\ first_cycles' = CyclesAfter(first_cycles, sessions, ev')
    /\ dispatched_today' = dispatched_today \cup {ev.alert.title}
    /\ UNCHANGED <<first_time_ever, logged_in, market_is_open, sessions,
                   retry_count, at_login_url, day, now, prev_title>>

\* Line 223 raises, then lines 240-242: nothing is stored and the loop over
\* sessions is left.
MessageBusRaises ==
    /\ pc = "send"
    /\ "fail" \in SinkOutcomes
    /\ ev' = [ev EXCEPT !.ws = "fail", !.slept = PauseAfterError]
    /\ pc' = AfterException
    /\ i' = 0
    /\ first_cycles' = CyclesAfter(first_cycles, sessions, ev')
    /\ UNCHANGED dispatched_today
    /\ UNCHANGED <<first_time_ever, logged_in, market_is_open, sessions,
                   last_alert_details, retry_count, at_login_url, day, now,
                   prev_title>>

----------------------------------------------------------------------------
Next ==
    \/ StartLogin
    \/ LoginWindowIdle
    \/ OpenLoginPage
    \/ LoginAttempt
    \/ LoginReturn
    \/ LoginRaises
    \/ SessionRaises
    \/ QuitRaises
    \/ MarketOpen
    \/ FetchNone
    \/ FetchRaises
    \/ FetchRepeat
    \/ CallNotification
    \/ NotificationReturns
    \/ NotificationRaises
    \/ MessageBusReturns
    \/ MessageBusRaises
    \/ MarketClosed
    \/ OvernightWait

Spec == Init /\ [][Next]_vars

----------------------------------------------------------------------------
\* The branch of one loop cycle as a function of the clock reading and of the
\* schedule get_next_market_times() returned: every ordered schedule and
\* every instant, one cycle each.
Schedules ==
    {sc \in [pre : Ticks, open : Ticks, close : Ticks] :
        sc.pre <= sc.open /\ sc.open <= sc.close}

PhaseInit ==
    /\ pc = "top"
    /\ first_time_ever \in BOOLEAN
    /\ logged_in = FALSE
    /\ market_is_open = FALSE
    /\ sessions = <<>>
    /\ last_alert_details = EmptyDict
    /\ i = 0
    /\ retry_count = 0
    /\ at_login_url = FALSE
    /\ day = 0
    /\ now \in Ticks
    /\ prev_title = NoTitle
    /\ dispatched_today = {}
    /\ first_cycles = NotPolledYet
    /\ \E sc \in Schedules : ev = [op |-> "clock", schedule |-> sc]

PhaseStep ==
    /\ pc = "top"
    /\ pc' = BranchAt(now, first_time_ever,
                      ev.schedule.pre, ev.schedule.open, ev.schedule.close)
    /\ ev' = [ev EXCEPT !.op = "branch"]
    /\ UNCHANGED <<dispatched_today, first_cycles>>
    /\ UNCHANGED <<first_time_ever, logged_in, market_is_open, sessions,
                   last_alert_details, i, retry_count, at_login_url, day, now,
                   prev_title>>

SpecPhase == PhaseInit /\ [][PhaseStep]_vars

----------------------------------------------------------------------------
\* The Signal as a function of the title: titles put together from at most
\* MaxTokens pieces, and the titles above, one Signal each.
MaxTokens == 3

\* The pieces "buy", "BUY", "Sell", "AAPL", "ABCDEF", the space, "$", "x",
\* "7", ".", the Cyrillic capital Ya and the no-break space.
Tokens ==
    {<<98, 117, 121>>, <<66, 85, 89>>, <<83, 101, 108, 108>>,
     <<65, 65, 80, 76>>, <<65, 66, 67, 68, 69, 70>>, <<32>>, <<36>>, <<120>>,
     <<55>>, <<46>>, <<1071>>, <<160>>}

RECURSIVE TokenTexts(_)
TokenTexts(n) ==
    IF n = 0 THEN {<<>>}
    ELSE LET shorter == TokenTexts(n - 1)
         IN  shorter \cup {t \o w : t \in shorter, w \in Tokens}

\* Line 119, get_text(strip=True): a title has no whitespace at its ends.
IsStripped(t) ==
    t = <<>> \/ (t[1] \notin WhiteSpace /\ t[Len(t)] \notin WhiteSpace)

TitleInputs ==
    {t \in TokenTexts(MaxTokens) : IsStripped(t)}
        \cup {BuySignalTitle, SellTslaTitle, BuyAaplTitle, UpdateTitle,
              BuyAndSellTitle}

SignalInit ==
    /\ pc = "poll"
    /\ first_time_ever = FALSE
    /\ logged_in = TRUE
    /\ market_is_open = TRUE
    /\ sessions = <<>>
    /\ last_alert_details = EmptyDict
    /\ i = 0
    /\ retry_count = 0
    /\ at_login_url = FALSE
    /\ day = 0
    /\ now = MarketOpenAt
    /\ prev_title = NoTitle
    /\ dispatched_today = {}
    /\ first_cycles = NotPolledYet
    /\ \E t \in TitleInputs : ev = [op |-> "title", text |-> t]

SignalStep ==
    /\ ev.op = "title"
    /\ ev' = [op |-> "signal", text |-> ev.text, signal |-> SignalOf(ev.text)]
    /\ UNCHANGED <<dispatched_today, first_cycles>>
    /\ UNCHANGED <<pc, first_time_ever, logged_in, market_is_open, sessions,
                   last_alert_details, i, retry_count, at_login_url, day, now,
                   prev_title>>

SpecSignal == SignalInit /\ [][SignalStep]_vars

----------------------------------------------------------------------------
TypeOK ==
    /\ pc \in {"top", "login_open", "login_loop", "poll", "notify", "send",
              "overnight", "crashed"}
    /\ first_time_ever \in BOOLEAN /\ logged_in \in BOOLEAN
    /\ market_is_open \in BOOLEAN
    /\ Len(sessions) <= NumAccounts
    /\ last_alert_details \in
          {EmptyDict} \cup [title : Titles, created_at : Stamps]
    /\ i \in 0..NumAccounts
    /\ retry_count \in 0..RetryBudget
    /\ day \in 0..MaxDay /\ now \in Ticks
    /\ dispatched_today \subseteq Titles
    /\ first_cycles.stage \in
          {"start", "first_1", "first_2", "second_1", "off"}
    /\ first_cycles.first \in 0..1 /\ first_cycles.second \in 0..1
    /\ ev.signal \in {NoSignal} \cup {SignalOfTitle[n] : n \in Titles}

----------------------------------------------------------------------------
\* Vocabulary of the properties.

\* The latest step polled a session and extracted an alert.
ExtractedAlert(e) == e.op = "poll" /\ e.fetched = "Alert"

\* A sink was called for the extracted alert.
DispatchAttempted(e) == e.tg # "none"

\* No sink call is awaited: the pass over the session is over.
PassOver(e) == e.tg # "called" /\ e.ws # "called"

\* The positions inside the pass over one session.
InPass(p) == p \in {"poll", "notify", "send"}

\* The latest step polled a session and an exception reached the handler.
PollFailed(e) ==
    e.op = "poll" /\ (e.fetched = "Raise" \/ e.tg = "fail" \/ e.ws = "fail")

\* The session was made by a login that ran after the CLOSED phase preceding
\* the current trading day's open window began.
MadeSinceLastClose(s) ==
    \/ s.day = day
    \/ s.day = day - 1 /\ s.after_close

----------------------------------------------------------------------------
\* C1: for every extracted alert a sink is called if and only if its title
\* differs from the stored title (or nothing is stored), whatever its price
\* and created_at; so a title extracted twice in a row causes no sink call
\* the second time.
C1_DispatchIffTitleDiffers ==
    [][(pc = "poll" /\ ExtractedAlert(ev'))
          => /\ DispatchAttempted(ev')
                  <=> (ev'.alert.title # last_alert_details.title)
             /\ (prev_title = ev'.alert.title) => ~DispatchAttempted(ev')]_vars

\* C2: after a dispatch attempt the alert is the stored one, also when a
\* sink call failed.
C2_SeenAfterAttempt ==
    (ExtractedAlert(ev) /\ DispatchAttempted(ev) /\ PassOver(ev))
        => last_alert_details = Recorded(ev.alert)

\* C3: whenever the notification sink is called for an alert, the
\* message-bus sink is called for it too, whether or not the first failed.
C3_BothSinksInvoked ==
    (ExtractedAlert(ev) /\ DispatchAttempted(ev) /\ PassOver(ev))
        => ev.ws # "none"

\* C4: the first alert extracted after an overnight wait is dispatched,
\* whatever the stored alert was the day before.
C4_FirstAlertOfDayDispatched ==
    [][(pc = "poll" /\ ExtractedAlert(ev') /\ prev_title = NoTitle)
          => DispatchAttempted(ev')]_vars

\* C5: every session polled was made by a login performed after the
\* preceding CLOSED phase began.
C5_NoSessionAcrossDays ==
    pc = "poll" => \A k \in 1..Len(sessions) : MadeSinceLastClose(sessions[k])

\* C6: an exception of the extraction call or of a sink call leaves the
\* loop running at its top after a pause, with the same sessions; and when
\* the next clock reading is in the open window, the sessions are polled again.
C6_ErrorContained ==
    [][/\ (InPass(pc) /\ PollFailed(ev'))
            => (pc' = "top" /\ sessions' = sessions /\ ev'.slept)
       /\ (pc = "top" /\ PollFailed(ev) /\ InOpenWindow(now'))
            => (pc' = "poll" /\ i' = 1 /\ sessions' = sessions)]_vars

\* A sink failed while the first session was polled, and the loop is back at
\* its top.
C6_Witness ==
    pc = "top" /\ ev.op = "poll" /\ ev.idx = 1 /\ ev.ws = "fail"

\* C7: an extraction error at one session does not keep the sessions after
\* it from being polled in the same cycle.
C7_OthersStillPolled ==
    (ev.op = "poll" /\ ev.fetched = "Raise" /\ ev.idx < Len(sessions))
        => pc = "poll"

\* C8: the session list holds sessions only of the accounts whose login
\* succeeded.
C8_OnlyAuthenticatedSessions ==
    \A k \in 1..Len(sessions) : sessions[k].authed

\* C9: whenever a session is about to be polled, the clock reading is in the
\* open window and the session list has one entry per account, in the order
\* of the accounts.
C9_OneSessionPerAccount ==
    pc = "poll"
        => /\ InOpenWindow(now)
           /\ Len(sessions) = NumAccounts
           /\ \A k \in 1..NumAccounts : sessions[k].account = k

\* The last session is about to be polled, and the login of the first
\* account had failed.
C9_Witness ==
    pc = "poll" /\ i = NumAccounts /\ ~sessions[1].authed

\* C10: during the overnight wait the session list is empty.
C10_NoSessionsOvernight ==
    pc = "overnight" => sessions = <<>>

----------------------------------------------------------------------------
\* C11: once authentication has completed, a loop cycle in the login window
\* logs nobody in and leaves the session list as it is; logged_in stays set
\* until the closed branch clears it and a login starts only with logged_in
\* clear; a completed login leaves one session per account; and no login
\* starts on a trading day on which the sessions at hand were made, so each
\* trading day has at most one authentication.
C11_OneLoginPerTradingDay ==
    [][/\ (pc = "top" /\ logged_in /\ InLoginWindow(now'))
            => (pc' = "top" /\ sessions' = sessions /\ logged_in')
       /\ (pc = "top" /\ pc' = "login_open")
            => /\ ~logged_in
               /\ \A k \in 1..Len(sessions) : sessions[k].day # day'
       /\ (logged_in /\ ~logged_in') => pc' = "overnight"
       /\ (~logged_in /\ logged_in') => Len(sessions') = NumAccounts]_vars

\* On the second trading day every account was logged in again, once, and a
\* later loop cycle in the login window found the login done.
C11_Witness ==
    /\ ev.op = "login_idle"
    /\ logged_in
    /\ day = 1
    /\ Len(sessions) = NumAccounts
    /\ \A k \in 1..Len(sessions) : sessions[k].day = 1

\* C12: login submits the credentials only while the browser is on the login
\* page and fewer than 5 submissions were made, every pass of its loop counts
\* one submission, and the value it returns is "not on the login page" at
\* the moment it stops, which is False exactly when 5 submissions left the
\* browser on the login page.
C12_FailsExactlyAfterFive ==
    [][/\ (pc = "login_loop" /\ ev'.op = "login_attempt")
            => /\ at_login_url
               /\ retry_count' = retry_count + 1
               /\ retry_count' <= RetryBudget
       /\ (pc = "login_loop" /\ ev'.op \in {"login_return", "quit_raises"})
            => LET result == sessions'[Len(sessions')].authed
               IN  /\ result <=> ~at_login_url'
                   /\ ~result <=> (at_login_url /\ retry_count = RetryBudget)
       /\ (pc' = "login_loop") => (pc = "login_loop" \/ retry_count' = 0)]_vars

\* C13 (as claimed): after the login forced by a cold start past the close,
\* the loop polls.
C13_ColdStartForcesPolling ==
    [][(pc = "top" /\ ev.op = "login_return" /\ now > MarketCloseAt)
          => pc' = "poll"]_vars

\* C13 (amended): the first cycle starts the login whatever the clock reads,
\* first_time_ever is never set again, every later login starts with a clock
\* reading in the login window, and every poll cycle starts with a clock
\* reading in the open window.
C13_ColdStartForcesLoginOnce ==
    [][/\ first_time_ever => (pc' = "login_open" /\ ~first_time_ever')
       /\ ~first_time_ever => ~first_time_ever'
       /\ (~first_time_ever /\ pc = "top" /\ pc' = "login_open")
            => InLoginWindow(now')
       /\ (pc = "top" /\ pc' = "poll") => InOpenWindow(now')]_vars

\* The cold-start cycle began a login with the clock past the close.
C13_Witness ==
    ev.op = "start_login" /\ now > MarketCloseAt /\ ~first_time_ever

\* C17: last_alert_details changes only in a poll step in which both sinks
\* returned, and then to the title and created_at of the extracted alert.
C17_RecordedOnlyAfterDispatch ==
    [][(last_alert_details' # last_alert_details)
          => /\ InPass(pc)
             /\ ExtractedAlert(ev')
             /\ ev'.tg = "ok" /\ ev'.ws = "ok"
             /\ last_alert_details'.title = ev'.alert.title
             /\ last_alert_details'.created_at = ev'.alert.created_at]_vars

\* Both sinks returned and the alert is the stored one.
C17_Witness ==
    /\ ExtractedAlert(ev) /\ ev.tg = "ok" /\ ev.ws = "ok"
    /\ last_alert_details.title = ev.alert.title
    /\ last_alert_details.created_at = ev.alert.created_at

\* C19: every pass that calls fetch_alert_details has paused by the time it
\* is over and the next call can be made, whatever the call returned or
\* raised.
C19_PauseAfterEveryExtraction ==
    (ev.op = "poll" /\ pc \in {"poll", "top"}) => ev.slept

\* An extraction raised and the loop paused.
C19_Witness ==
    ev.op = "poll" /\ ev.fetched = "Raise" /\ ev.slept

\* C20: a loop cycle in the login window with every account logged in
\* contains a pause.
C20_IdleCyclePauses ==
    ev.op = "login_idle" => ev.slept

----------------------------------------------------------------------------
\* C14: after the cold-start cycle a loop cycle takes the login branch iff
\* pre <= now < open, the polling branch iff open <= now <= close, the closed
\* branch otherwise, for every ordered schedule; now = open is the polling
\* branch.
C14_PhaseIsTotal ==
    (ev.op = "branch" /\ ~first_time_ever)
        => LET sc == ev.schedule
           IN  /\ pc \in {"login", "open", "closed"}
               /\ pc = "login" <=> (sc.pre <= now /\ now < sc.open)
               /\ pc = "open" <=> (sc.open <= now /\ now <= sc.close)
               /\ pc = "closed" <=> (now < sc.pre \/ now > sc.close)
               /\ now = sc.open => pc = "open"

\* The clock read exactly the opening instant of a schedule with a login
\* window, and the polling branch was taken.
C14_Witness ==
    /\ ev.op = "branch" /\ ~first_time_ever
    /\ ev.schedule.pre < ev.schedule.open
    /\ now = ev.schedule.open
    /\ pc = "open"

----------------------------------------------------------------------------
\* Vocabulary of the Signal properties.

\* s[p..q] is a maximal run of the capitals A to Z.
IsUpperRun(s, p, q) ==
    /\ 1 <= p /\ p <= q /\ q <= Len(s)
    /\ \A k \in p..q : s[k] \in Upper
    /\ (p = 1 \/ s[p - 1] \notin Upper)
    /\ (q = Len(s) \/ s[q + 1] \notin Upper)

\* s[p..q] is a whole word: a maximal run of letters, digits and underscores.
IsWholeWord(s, p, q) ==
    /\ 1 <= p /\ p <= q /\ q <= Len(s)
    /\ \A k \in p..q : s[k] \in WordChar
    /\ (p = 1 \/ s[p - 1] \notin WordChar)
    /\ (q = Len(s) \/ s[q + 1] \notin WordChar)

\* After s[q] comes optional whitespace and then a dollar sign.
DollarFollows(s, q) ==
    \E d \in (q + 1)..Len(s) :
        s[d] = Dollar /\ \A k \in (q + 1)..(d - 1) : s[k] \in WhiteSpace

\* The first of a set of <<p, q>> stretches of s, or "-" when there is none.
FirstOf(s, stretches) ==
    IF stretches = {} THEN <<Hyphen>>
    ELSE LET f == CHOOSE x \in stretches : \A y \in stretches : x[1] <= y[1]
         IN  SubSeq(s, f[1], f[2])

UpperRunTokens(s) ==
    {x \in (1..Len(s)) \X (1..Len(s)) :
        /\ IsUpperRun(s, x[1], x[2])
        /\ x[2] - x[1] + 1 <= 5
        /\ DollarFollows(s, x[2])}

WholeWordTokens(s) ==
    {x \in (1..Len(s)) \X (1..Len(s)) :
        /\ IsWholeWord(s, x[1], x[2])
        /\ \A k \in x[1]..x[2] : s[k] \in Upper
        /\ x[2] - x[1] + 1 <= 5
        /\ DollarFollows(s, x[2])}

\* The title has the three letters of "buy" (of "sell") in a row, in any case.
HasBuy(s) ==
    \E k \in 1..(Len(s) - 2) :
        /\ s[k] \in {98, 66} /\ s[k + 1] \in {117, 85}
        /\ s[k + 2] \in {121, 89}
HasSell(s) ==
    \E k \in 1..(Len(s) - 3) :
        /\ s[k] \in {115, 83} /\ s[k + 1] \in {101, 69}
        /\ s[k + 2] \in {108, 76} /\ s[k + 3] \in {108, 76}

DirectionOf(s) ==
    IF HasBuy(s) THEN "Buy" ELSE IF HasSell(s) THEN "Sell" ELSE "None"

\* The four titles with a stated result; the tickers are "AAPL", "TSLA", "-".
ExamplesHold ==
    /\ ev.text = BuyAaplTitle
        => ev.signal.type = "Buy" /\ ev.signal.ticker = <<65, 65, 80, 76>>
    /\ ev.text = SellTslaTitle
        => ev.signal.type = "Sell" /\ ev.signal.ticker = <<84, 83, 76, 65>>
    /\ ev.text = UpdateTitle => ev.signal.ticker = <<Hyphen>>
    /\ ev.text = BuyAndSellTitle => ev.signal.type = "Buy"

\* C16 as stated: the Signal is a function of the title alone; type is Buy
\* when the title contains "buy" in any case, else Sell when it contains
\* "sell", else None; ticker is the first run of 1 to 5 uppercase letters
\* followed, after optional whitespace, by a dollar sign, "-" when there is
\* none; name and sender are "Hedgeye" and "hedgeye".
C16_TickerIsFirstUppercaseRun ==
    ev.op = "signal"
        => /\ ev.signal = [name |-> "Hedgeye", type |-> DirectionOf(ev.text),
                           ticker |-> FirstOf(ev.text, UpperRunTokens(ev.text)),
                           sender |-> "hedgeye"]
           /\ ExamplesHold

\* C16 amended: as above, but the ticker is the first whole word (a run of
\* letters, digits and underscores with none before or after it) that is made
\* of 1 to 5 of the capitals A to Z and is followed, after optional
\* whitespace, by a dollar sign; capitals that end a longer word are no
\* ticker.
C16_TickerIsFirstWholeWord ==
    ev.op = "signal"
        => /\ ev.signal = [name |-> "Hedgeye", type |-> DirectionOf(ev.text),
                           ticker |-> FirstOf(ev.text, WholeWordTokens(ev.text)),
                           sender |-> "hedgeye"]
           /\ ExamplesHold

\* The Signal of a title where uppercase letters before a dollar sign end a
\* longer word, the Cyrillic capital Ya and then "AAPL$": the ticker is "-".
C16_Witness ==
    /\ ev.op = "signal"
    /\ ev.text = <<1071, 65, 65, 80, 76, 36>>
    /\ ev.signal.ticker = <<Hyphen>>

----------------------------------------------------------------------------
\* C15 as stated: two accounts, both authenticated; in the first pass
\* account 1 shows "Hedgeye Buy Signal $AAPL" and account 2 shows nothing:
\* exactly one dispatch, with Signal {Hedgeye, Buy, AAPL, hedgeye}; in the
\* second pass account 1 shows the same title: no dispatch.
C15_ScenarioTickerAAPL ==
    /\ first_cycles.stage \in {"first_2", "second_1"}
        => /\ first_cycles.first = 1
           /\ first_cycles.signals =
                 <<[name |-> "Hedgeye", type |-> "Buy",
                    ticker |-> <<65, 65, 80, 76>>, sender |-> "hedgeye"]>>
    /\ first_cycles.stage = "second_1" => first_cycles.second = 0

\* C15 amended: the same scenario, and the Signal of the one dispatch is
\* {Hedgeye, Buy, "-", hedgeye}: in this title the dollar sign is before AAPL,
\* not after it.
C15_ScenarioTickerSentinel ==
    /\ first_cycles.stage \in {"first_2", "second_1"}
        => /\ first_cycles.first = 1
           /\ first_cycles.signals =
                 <<[name |-> "Hedgeye", type |-> "Buy",
                    ticker |-> <<Hyphen>>, sender |-> "hedgeye"]>>
    /\ first_cycles.stage = "second_1" => first_cycles.second = 0

\* Both passes of the scenario are over: one dispatch in the first, the title
\* shown again in the second.
C15_Witness ==
    /\ first_cycles.stage = "second_1"
    /\ first_cycles.first = 1
    /\ Len(first_cycles.signals) = 1
    /\ ev.fetched = "Alert" /\ ev.alert.title = TrackedTitle /\ ev.idx = 1
    /\ TitleText(TrackedTitle) = BuySignalTitle

----------------------------------------------------------------------------
\* C18 as stated: within one trading day no title is dispatched more than
\* once: an alert whose title was already dispatched since the last
\* overnight wait is suppressed, whatever was seen in between.
C18_NoTitleTwiceADay ==
    [][(pc = "poll" /\ ExtractedAlert(ev')
            /\ ev'.alert.title \in dispatched_today)
        => ~DispatchAttempted(ev')]_vars

\* C18 amended: an alert whose title was already dispatched this trading day
\* is suppressed exactly when that title is the one dispatched last; once
\* another title was dispatched in between (A, B, A) it is dispatched again.
C18_SuppressedIffDispatchedLast ==
    [][(pc = "poll" /\ ExtractedAlert(ev')
            /\ ev'.alert.title \in dispatched_today)
        => (DispatchAttempted(ev')
                <=> ev'.alert.title # last_alert_details.title)]_vars

\* A title dispatched earlier in the day has just been dispatched a second
\* time, after another title.
C18_Witness ==
    /\ ExtractedAlert(ev) /\ ev.again
    /\ ev.tg = "ok" /\ ev.ws = "ok"
    /\ Cardinality(dispatched_today) >= 2

====
